---- MODULE Spec2Model ----
(***************************************************************************)
(* Prediction heads of model/downstream.py: ClozeModel, VerbalizerModel    *)
(* and PoolingModel, each a forward call around a language model.          *)
(*                                                                         *)
(* A tensor is a record [shape, data]: data is the contiguous row-major    *)
(* storage (a 1-based sequence), shape the list of dimension sizes.        *)
(* Indices into a tensor are 0-based, as in the source.  Floating point    *)
(* values are fixed-point integers; a quotient is an exact rational.       *)
(***************************************************************************)
EXTENDS Integers, Sequences, FiniteSets, TLC

VARIABLES self, args, num_choices, trace, ret, hist

vars == <<self, args, num_choices, trace, ret, hist>>

\* ------------------------------------------------------------------ bounds
MaxBatch == 2
MaxChoices == 2
SeqLen == 3
Vocab == 2
Hidden == 2
NumCand == 2
MaxPenalty == 2
MaxCalls == 2

\* None, for num_choices: the empty sequence; a recorded value is <<C>>
None == <<>>

\* no tensor (nothing was returned)
NoValue == [shape |-> <<>>, data |-> <<>>]

\* ----------------------------------------------------------------- tensors
RECURSIVE Prod(_)
Prod(s) == IF s = <<>> THEN 1 ELSE Head(s) * Prod(Tail(s))

RECURSIVE SumSeq(_)
SumSeq(s) == IF s = <<>> THEN 0 ELSE Head(s) + SumSeq(Tail(s))

RECURSIVE Pow(_, _)
Pow(b, e) == IF e = 0 THEN 1 ELSE b * Pow(b, e - 1)

RECURSIVE Gcd(_, _)
Gcd(a, b) == IF b = 0 THEN a ELSE Gcd(b, a % b)

Abs(x) == IF x < 0 THEN -x ELSE x

Numel(t) == Prod(t.shape)

Dim(t) == Len(t.shape)

\* t.size(d), d counted from the end when negative
Size(t, d) == IF d < 0 THEN t.shape[Len(t.shape) + d + 1] ELSE t.shape[d + 1]

\* t.size()[2:]
TrailingDims(t) == SubSeq(t.shape, 3, Len(t.shape))

\* t[r, p] and t[r, p, v] of a contiguous tensor
At2(t, r, p) == t.data[r * t.shape[2] + p + 1]

At3(t, r, p, v) == t.data[(r * t.shape[2] + p) * t.shape[3] + v + 1]

\* a tensor index: a negative index counts from the end, anything outside
\* -n .. n-1 is an IndexError
InRange(i, n) == -n <= i /\ i < n

WrapClamp(i, n) == IF i < 0 THEN 0 ELSE i

Wrap(i, n) == IF i < 0 THEN i + n ELSE i

\* x.reshape(dims): dims holds one -1, the dimension inferred from the
\* number of elements; the storage order is kept
Reshape(t, dims) ==
    LET known == -Prod(dims)
        inferred == Numel(t) \div known
    IN  [shape |-> [i \in 1..Len(dims) |-> IF dims[i] = -1 THEN inferred ELSE dims[i]],
         data |-> t.data]

\* logits.view(-1, num_choices)
ViewTransposed(t, nc) ==
    LET B == Numel(t) \div nc
    IN  [shape |-> <<B, nc>>,
         data |-> [i \in 1..Numel(t) |->
                     LET b == (i - 1) \div nc
                         c == (i - 1) % nc
                     IN  t.data[c * B + b + 1]]]

View(t, nc) == [shape |-> <<Numel(t) \div nc, nc>>, data |-> t.data]

\* a / b in floating point, exactly: a rational in lowest terms with a
\* positive denominator; x / 0 is inf, -inf or nan (denominator 0)
Quot(a, b) ==
    IF b = 0
    THEN [num |-> IF a > 0 THEN 1 ELSE IF a < 0 THEN -1 ELSE 0, den |-> 0]
    ELSE LET g == Gcd(Abs(a), Abs(b))
             s == IF b < 0 THEN -1 ELSE 1
         IN  [num |-> s * (a \div g), den |-> s * (b \div g)]

\* ---------------------------------------------------------- language model
\* The collaborator self.model: row r of outputs is a function of row r of
\* its three inputs alone; mems is an opaque trailing sequence.
Row(t, r) == SubSeq(t.data, r * Size(t, -1) + 1, (r + 1) * Size(t, -1))

LanguageModel(model, input_ids, position_ids, attention_mask) ==
    LET N == input_ids.shape[1]
        L == input_ids.shape[2]
        D == model.width
    IN  [outputs |->
           [shape |-> <<N, L, D>>,
            data |-> [i \in 1..(N * L * D) |->
                        LET r == (i - 1) \div (L * D)
                            p == ((i - 1) \div D) % L
                            v == (i - 1) % D
                        IN  ((model.seed + At2(input_ids, r, p)) * (v + 1)
                             + At2(position_ids, r, p)
                             + attention_mask.data[r + 1]
                             + SumSeq(Row(input_ids, r))) % 4]],
         mems |-> << [mem |-> model.seed, rows |-> N] >>]

RECURSIVE Log2(_)
Log2(n) == IF n <= 1 THEN 0 ELSE 1 + Log2(n \div 2)

\* torch.nn.functional.log_softmax(outputs, dim=-1) in base 2, rounded down:
\* x - log2(sum over the last dimension of 2^x)
log_softmax(t) ==
    LET D == Size(t, -1)
    IN  [shape |-> t.shape,
         data |-> [i \in 1..Numel(t) |->
                     LET base == ((i - 1) \div D) * D
                     IN  t.data[i]
                         - Log2(SumSeq([v \in 1..D |-> 2 ^ t.data[base + v]]))]]

\* -------------------------------------------------------------- ClozeModel
\* num_choices = None: a local of forward, set anew by every call
StaleNumChoices == num_choices

InitNumChoices == None

\* outputs[batch_ids, seq_ids, target_ids] with batch_ids[r, p] = r and
\* seq_ids[r, p] = p, both expanded to target_ids' shape
Gather(outputs, target_ids) ==
    LET T == Size(target_ids, -1)
    IN  [shape |-> target_ids.shape,
         data |-> [i \in 1..Numel(target_ids) |->
                     LET batch_id == (i - 1) \div T
                         seq_id == (i - 1) % T
                     IN  At3(outputs, batch_id, seq_id, target_ids.data[i])]]

\* (logits * logit_mask).sum(dim=1)
UnmaskedSum(logits, logit_mask) ==
    [shape |-> <<logits.shape[1]>>,
     data |-> [r \in 1..logits.shape[1] |-> SumSeq(Row(logits, r - 1))]]

MaskedSum(logits, logit_mask) ==
    LET T == logits.shape[2]
    IN  [shape |-> <<logits.shape[1]>>,
         data |-> [r \in 1..logits.shape[1] |->
                     SumSeq([p \in 1..T |->
                               At2(logits, r - 1, p - 1) * At2(logit_mask, r - 1, p - 1)])]]

\* if self.length_penalty > 0.0:
\*     logits = logits / logit_mask.sum(dim=1) ** self.length_penalty
LengthNormalizeByLength(logits, logit_mask, length_penalty) ==
    IF length_penalty > 0
    THEN [shape |-> logits.shape,
          data |-> [r \in 1..Numel(logits) |->
                      Quot(logits.data[r], Pow(logit_mask.shape[2], length_penalty))]]
    ELSE logits

LengthNormalize(logits, logit_mask, length_penalty) ==
    IF length_penalty > 0
    THEN [shape |-> logits.shape,
          data |-> [r \in 1..Numel(logits) |->
                      Quot(logits.data[r],
                           Pow(SumSeq(Row(logit_mask, r - 1)), length_penalty))]]
    ELSE logits

ClozeModel_forward(this, a) ==
    LET is3 == Dim(a.input_ids) = 3
        nc == IF is3 THEN <<a.input_ids.shape[2]>> ELSE InitNumChoices
        input_ids == IF is3 THEN Reshape(a.input_ids, <<-1, Size(a.input_ids, -1)>>)
                     ELSE a.input_ids
        attention_mask == IF is3 THEN Reshape(a.attention_mask,
                                              <<-1>> \o TrailingDims(a.attention_mask))
                          ELSE a.attention_mask
        position_ids == IF is3 THEN Reshape(a.position_ids,
                                            <<-1>> \o TrailingDims(a.position_ids))
                        ELSE a.position_ids
        target_ids == IF is3 THEN Reshape(a.target_ids, <<-1, Size(a.target_ids, -1)>>)
                      ELSE a.target_ids
        logit_mask == IF is3 THEN Reshape(a.logit_mask, <<-1, Size(a.logit_mask, -1)>>)
                      ELSE a.logit_mask
        lm == LanguageModel(this.model, input_ids, position_ids, attention_mask)
        outputs == IF this.take_softmax THEN log_softmax(lm.outputs) ELSE lm.outputs
        gathered == Gather(outputs, target_ids)
        summed == MaskedSum(gathered, logit_mask)
        logits == LengthNormalize(summed, logit_mask, this.length_penalty)
    IN  [ret |-> [kind |-> "return",
                  value |-> IF nc # None THEN View(logits, nc[1]) ELSE logits,
                  mems |-> lm.mems],
         num_choices |-> nc,
         trace |-> (IF is3 THEN <<"reshape">> ELSE <<>>) \o <<"model">>
                   \o (IF this.take_softmax THEN <<"log_softmax">> ELSE <<>>)
                   \o <<"gather", "sum">>
                   \o (IF this.length_penalty > 0 THEN <<"divide">> ELSE <<>>)
                   \o (IF nc # None THEN <<"view">> ELSE <<>>)]

\* --------------------------------------------------------- VerbalizerModel
\* assert len(input_ids.shape) == 2
Is2D(input_ids) == Dim(input_ids) = 2

\* every entry of an index tensor is a valid index into a dimension of size n
IndexOK(index, n) == \A r \in 1..Len(index.data) : InRange(index.data[r], n)

\* outputs[torch.arange(outputs.size(0)), index]: row r is outputs[r, index[r]]
SelectPosition(outputs, index) ==
    LET N == outputs.shape[1]
        L == outputs.shape[2]
        D == outputs.shape[3]
    IN  [shape |-> <<N, D>>,
         data |-> [i \in 1..(N * D) |->
                     LET r == (i - 1) \div D
                         v == (i - 1) % D
                     IN  At3(outputs, r, Wrap(index.data[r + 1], L), v)]]

\* output[batch_ids, target_ids] with batch_ids[r, j] = r: entry (r, j) is
\* output[r, target_ids[r, j]]
GatherCandidatesFirstRow(output, target_ids) ==
    LET K == Size(target_ids, -1)
    IN  [shape |-> target_ids.shape,
         data |-> [i \in 1..Numel(target_ids) |-> At2(output, 0, target_ids.data[i])]]

GatherCandidates(output, target_ids) ==
    LET K == Size(target_ids, -1)
    IN  [shape |-> target_ids.shape,
         data |-> [i \in 1..Numel(target_ids) |->
                     At2(output, (i - 1) \div K, target_ids.data[i])]]

Raised(error, nc, steps) ==
    [ret |-> [kind |-> error, value |-> NoValue, mems |-> <<>>],
     num_choices |-> nc,
     trace |-> steps]

\* the statements of forward after its assertion
VerbalizerModel_gather(this, a) ==
    LET lm == LanguageModel(this.model, a.input_ids, a.position_ids, a.attention_mask)
        outputs == lm.outputs
    IN  IF ~IndexOK(a.attention_mask, outputs.shape[2])
        THEN Raised("IndexError", None, <<"model">>)
        ELSE [ret |-> [kind |-> "return",
                       value |-> GatherCandidates(
                                     SelectPosition(outputs, a.attention_mask),
                                     a.target_ids),
                       mems |-> lm.mems],
              num_choices |-> None,
              trace |-> <<"model", "index", "gather">>]

VerbalizerModel_forward_AssertAfterModel(this, a) ==
    IF ~Is2D(a.input_ids)
    THEN Raised("AssertionError", None, <<"model">>)
    ELSE VerbalizerModel_gather(this, a)

VerbalizerModel_forward(this, a) ==
    IF ~Is2D(a.input_ids)
    THEN Raised("AssertionError", None, <<>>)
    ELSE VerbalizerModel_gather(this, a)

\* ------------------------------------------------------------ PoolingModel
\* assert self.num_class == 1
AnyNumClass(num_class) == TRUE

SingleClass(num_class) == num_class = 1

\* if / elif / elif / else: raise NotImplementedError
EveryPoolToken(pool_token) == TRUE

KnownPoolToken(pool_token) == pool_token \in {"start", "pad", "cls"}

\* the sequence position pooled for a row whose attention_mask entry is am
PoolPositionNoShift(pool_token, am) ==
    IF pool_token = "start" THEN am
    ELSE IF pool_token = "pad" THEN am
    ELSE 0

PoolPosition(pool_token, am) ==
    IF pool_token = "start" THEN am
    ELSE IF pool_token = "pad" THEN am - 1
    ELSE 0

PoolIndex(pool_token, attention_mask) ==
    [shape |-> attention_mask.shape,
     data |-> [r \in 1..Len(attention_mask.data) |->
                 PoolPosition(pool_token, attention_mask.data[r])]]

\* torch.nn.Linear: x @ weight.T + bias
Linear(layer, x) ==
    LET N == x.shape[1]
        In == x.shape[2]
        Out == Len(layer.bias)
    IN  [shape |-> <<N, Out>>,
         data |-> [i \in 1..(N * Out) |->
                     LET r == (i - 1) \div Out
                         j == ((i - 1) % Out) + 1
                     IN  SumSeq([k \in 1..In |-> At2(x, r, k - 1) * layer.weight[j][k]])
                         + layer.bias[j]]]

\* torch.tanh in fixed point with unit 1/2: round(2 * tanh(x / 2))
tanh(t) ==
    [shape |-> t.shape,
     data |-> [i \in 1..Numel(t) |->
                 IF t.data[i] > 2 THEN 2 ELSE IF t.data[i] < -2 THEN -2 ELSE t.data[i]]]

\* torch.nn.Dropout(p): in training, an element is kept where noise is 1 and
\* scaled by 1 / (1 - p), p in percent; the identity in evaluation
Dropout(this, x, noise) ==
    IF this.training /\ this.hidden_dropout > 0
    THEN [shape |-> x.shape,
          data |-> [i \in 1..Numel(x) |->
                      (x.data[i] * noise.data[i] * 100) \div (100 - this.hidden_dropout)]]
    ELSE x

\* the statements of forward after the call of the language model: pooling
\* by pool_token, the head, the view; lm is what the language model returned,
\* nc and pre the num_choices and the steps of forward so far
PoolingModel_pool(this, lm, attention_mask, noise, nc, pre) ==
    LET outputs == lm.outputs
        index == PoolIndex(this.pool_token, attention_mask)
    IN  IF ~KnownPoolToken(this.pool_token)
        THEN Raised("NotImplementedError", nc, pre \o <<"model">>)
        ELSE IF ~IndexOK(index, outputs.shape[2])
        THEN Raised("IndexError", nc, pre \o <<"model">>)
        ELSE
        LET output == tanh(Linear(this.pool_layer, SelectPosition(outputs, index)))
            multichoice_output == Dropout(this, output, noise)
            logits == Linear(this.multichoice_head, multichoice_output)
        IN  [ret |-> [kind |-> "return",
                      value |-> IF nc # None THEN View(logits, nc[1]) ELSE logits,
                      mems |-> lm.mems],
             num_choices |-> nc,
             trace |-> pre \o <<"model", "index", "pool_layer", "tanh",
                                "dropout", "head">>
                       \o (IF nc # None THEN <<"view">> ELSE <<>>)]

PoolingModel_forward(this, a) ==
    LET is3 == Dim(a.input_ids) = 3
    IN  IF is3 /\ ~SingleClass(this.num_class)
        THEN Raised("AssertionError", InitNumChoices, <<>>)
        ELSE
        LET nc == IF is3 THEN <<a.input_ids.shape[2]>> ELSE InitNumChoices
            input_ids == IF is3 THEN Reshape(a.input_ids, <<-1, Size(a.input_ids, -1)>>)
                         ELSE a.input_ids
            attention_mask == IF is3 THEN Reshape(a.attention_mask,
                                                  <<-1>> \o TrailingDims(a.attention_mask))
                              ELSE a.attention_mask
            position_ids == IF is3 THEN Reshape(a.position_ids,
                                                <<-1>> \o TrailingDims(a.position_ids))
                            ELSE a.position_ids
            lm == LanguageModel(this.model, input_ids, position_ids, attention_mask)
        IN  PoolingModel_pool(this, lm, attention_mask, a.noise, nc,
                              IF is3 THEN <<"reshape">> ELSE <<>>)

\* --------------------------------------------------------------- instances
LanguageModels(width) == {[seed |-> s, width |-> width] : s \in 1..2}

ClozeInstances ==
    {[cls |-> "ClozeModel", model |-> m, take_softmax |-> t, length_penalty |-> lp] :
        m \in LanguageModels(Vocab), t \in BOOLEAN, lp \in 0..MaxPenalty}

VerbalizerInstances ==
    {[cls |-> "VerbalizerModel", model |-> m] : m \in LanguageModels(Vocab)}

\* the learned parameters of the head: weight[j][i] and bias[j] of a layer
\* with `in` inputs and `out` outputs
LinearLayer(in, out) ==
    [weight |-> [j \in 1..out |-> [i \in 1..in |-> ((i + 2 * j) % 3) - 1]],
     bias |-> [j \in 1..out |-> j % 2]]

PoolTokens == {"start", "pad", "cls", "middle"}

PoolingInstances ==
    {[cls |-> "PoolingModel", model |-> m, pool_token |-> t, num_class |-> n,
      pool_layer |-> LinearLayer(Hidden, Hidden),
      multichoice_head |-> LinearLayer(Hidden, n),
      hidden_dropout |-> 50, training |-> tr] :
        m \in LanguageModels(Hidden), t \in PoolTokens, n \in 1..2, tr \in BOOLEAN}

Instances == ClozeInstances \cup VerbalizerInstances \cup PoolingInstances

\* ------------------------------------------------------------------ inputs
\* The shapes of input_ids: [B, L] and [B, C, L]
Shapes2 == {<<B, SeqLen>> : B \in 1..MaxBatch}

Shapes3 == {<<B, C, SeqLen>> : B \in 1..MaxBatch, C \in 1..MaxChoices}

BitMasks == [1..SeqLen -> {0, 1}]

\* Row r (flattened) of each tensor differs from row r + 1, so that a row
\* read from the wrong place shows.
GenIds(shape, s) ==
    [shape |-> shape,
     data |-> [i \in 1..Prod(shape) |->
                 LET r == (i - 1) \div SeqLen
                     p == (i - 1) % SeqLen
                 IN  (s + r + p * (r + 1)) % Vocab]]

GenPositions(shape) ==
    [shape |-> shape, data |-> [i \in 1..Prod(shape) |-> (i - 1) % SeqLen]]

GenTargets(shape, s) ==
    [shape |-> shape,
     data |-> [i \in 1..Prod(shape) |->
                 LET r == (i - 1) \div SeqLen
                     p == (i - 1) % SeqLen
                 IN  (s + p + r * p) % Vocab]]

GenMask(shape, mask0) ==
    [shape |-> shape,
     data |-> [i \in 1..Prod(shape) |->
                 LET r == (i - 1) \div SeqLen
                     p == (i - 1) % SeqLen
                 IN  mask0[((p + r) % SeqLen) + 1]]]

\* attention_mask: one index per row, a0 for row 0, the next one of lo..hi
\* for every further row
GenAttention(shape, a0, lo, hi) ==
    LET rows == SubSeq(shape, 1, Len(shape) - 1)
    IN  [shape |-> rows,
         data |-> [r \in 1..Prod(rows) |-> lo + ((a0 - lo + r - 1) % (hi - lo + 1))]]

ClozeArgs(shapes, seeds, masks) ==
    {[input_ids |-> GenIds(sh, s),
      position_ids |-> GenPositions(sh),
      attention_mask |-> GenAttention(sh, 1, 0, SeqLen - 1),
      target_ids |-> GenTargets(sh, s),
      logit_mask |-> GenMask(sh, m)] : sh \in shapes, s \in seeds, m \in masks}

\* target_ids of VerbalizerModel: NumCand candidate token ids per row
GenCandidates(shape, s) ==
    LET rows == SubSeq(shape, 1, Len(shape) - 1)
    IN  [shape |-> rows \o <<NumCand>>,
         data |-> [i \in 1..(Prod(rows) * NumCand) |->
                     LET r == (i - 1) \div NumCand
                         j == (i - 1) % NumCand
                     IN  (s + r + j * (r + 1)) % Vocab]]

\* the draw of the dropout layer: 1 keeps an element, 0 drops it
GenNoise(shape, k) ==
    LET rows == Prod(SubSeq(shape, 1, Len(shape) - 1))
    IN  [shape |-> <<rows, Hidden>>,
         data |-> [i \in 1..(rows * Hidden) |->
                     (k + ((i - 1) \div Hidden) + ((i - 1) % Hidden)) % 2]]

Shapes1 == {<<SeqLen>>}

\* indices into the sequence dimension, with those just outside it
Positions == (-SeqLen - 1)..(SeqLen + 1)

VerbalizerArgs(shapes, seeds, starts, masks) ==
    {[input_ids |-> GenIds(sh, s),
      position_ids |-> GenPositions(sh),
      attention_mask |-> GenAttention(sh, a0, -SeqLen - 1, SeqLen + 1),
      target_ids |-> GenCandidates(sh, s),
      logit_mask |-> GenMask(sh, m)] :
        sh \in shapes, s \in seeds, a0 \in starts, m \in masks}

PoolingArgs(shapes, seeds, starts, draws) ==
    {[input_ids |-> GenIds(sh, s),
      position_ids |-> GenPositions(sh),
      attention_mask |-> GenAttention(sh, a0, -SeqLen - 1, SeqLen + 1),
      noise |-> GenNoise(sh, k)] :
        sh \in shapes, s \in seeds, a0 \in starts, k \in draws}

AllOnes == [p \in 1..SeqLen |-> 1]

AllZeros == [p \in 1..SeqLen |-> 0]

ArgsFor(this) ==
    IF this.cls = "ClozeModel"
    THEN ClozeArgs(Shapes2 \cup Shapes3, 0..(Vocab - 1), BitMasks)
    ELSE IF this.cls = "VerbalizerModel"
    THEN VerbalizerArgs(Shapes1 \cup Shapes2 \cup Shapes3, 0..(Vocab - 1), Positions,
                        {AllOnes, AllZeros})
    ELSE PoolingArgs(Shapes2 \cup Shapes3, 0..(Vocab - 1), Positions, {0, 1})

NoArgs == [input_ids |-> NoValue]

NotCalled == [kind |-> "not called", value |-> NoValue, mems |-> <<>>]

\* ----------------------------------------------------------------- actions
ClozeForward(a) ==
    /\ self.cls = "ClozeModel"
    /\ Len(hist) < MaxCalls
    /\ LET r == ClozeModel_forward(self, a)
       IN  /\ ret' = r.ret
           /\ num_choices' = r.num_choices
           /\ trace' = r.trace
    /\ args' = a
    /\ hist' = Append(hist, Dim(a.input_ids))
    /\ UNCHANGED self

VerbalizerForward(a) ==
    /\ self.cls = "VerbalizerModel"
    /\ Len(hist) < MaxCalls
    /\ LET r == VerbalizerModel_forward(self, a)
       IN  /\ ret' = r.ret
           /\ num_choices' = r.num_choices
           /\ trace' = r.trace
    /\ args' = a
    /\ hist' = Append(hist, Dim(a.input_ids))
    /\ UNCHANGED self

PoolingForward(a) ==
    /\ self.cls = "PoolingModel"
    /\ Len(hist) < MaxCalls
    /\ LET r == PoolingModel_forward(self, a)
       IN  /\ ret' = r.ret
           /\ num_choices' = r.num_choices
           /\ trace' = r.trace
    /\ args' = a
    /\ hist' = Append(hist, Dim(a.input_ids))
    /\ UNCHANGED self

\* One forward call on an instance and inputs drawn at the start
Init ==
    /\ self \in Instances
    /\ args \in ArgsFor(self)
    /\ num_choices = None
    /\ trace = <<>>
    /\ ret = NotCalled
    /\ hist = <<>>

ClozeCall == hist = <<>> /\ ClozeForward(args)

VerbalizerCall == hist = <<>> /\ VerbalizerForward(args)

PoolingCall == hist = <<>> /\ PoolingForward(args)

Next == ClozeCall \/ VerbalizerCall \/ PoolingCall

Spec == Init /\ [][Next]_vars

\* Up to MaxCalls forward calls in a row on one instance, each on inputs of
\* its own
CallArgs(this) ==
    IF this.cls = "ClozeModel"
    THEN ClozeArgs(Shapes2 \cup Shapes3, {0}, {AllOnes, [AllOnes EXCEPT ![SeqLen] = 0]})
    ELSE IF this.cls = "VerbalizerModel"
    THEN VerbalizerArgs(Shapes1 \cup Shapes2 \cup Shapes3, {0}, {0, SeqLen}, {AllOnes})
    ELSE PoolingArgs(Shapes2 \cup Shapes3, {0}, {0, SeqLen + 1}, {0})

InitCalls ==
    /\ self \in Instances
    /\ args = NoArgs
    /\ num_choices = None
    /\ trace = <<>>
    /\ ret = NotCalled
    /\ hist = <<>>

ClozeCalls == \E a \in CallArgs(self) : ClozeForward(a)

VerbalizerCalls == \E a \in CallArgs(self) : VerbalizerForward(a)

PoolingCalls == \E a \in CallArgs(self) : PoolingForward(a)

NextCalls == ClozeCalls \/ VerbalizerCalls \/ PoolingCalls

SpecCalls == InitCalls /\ [][NextCalls]_vars

\* ================================================================== claims
Called == hist # <<>>

IsCloze == self.cls = "ClozeModel"

IsVerbalizer == self.cls = "VerbalizerModel"

IsPooling == self.cls = "PoolingModel"

Rank == Dim(args.input_ids)

\* the number of rows the language model sees: every dimension but the last
NumRows == Numel(args.input_ids) \div Size(args.input_ids, -1)

\* a tensor of the call with its leading dimensions merged into one
Rows2D(t) == [shape |-> <<Numel(t) \div Size(t, -1), Size(t, -1)>>, data |-> t.data]

Rows1D(t) == [shape |-> <<Numel(t)>>, data |-> t.data]

\* what the language model returns for the rows of the call
ModelOutputs ==
    LanguageModel(self.model, Rows2D(args.input_ids), Rows2D(args.position_ids),
                  Rows1D(args.attention_mask)).outputs

\* ClozeModel: the distributions the scores are read from
ScoredOutputs == IF self.take_softmax THEN log_softmax(ModelOutputs) ELSE ModelOutputs

\* ClozeModel: sum over p of outputs[r, p, target_ids[r, p]] * logit_mask[r, p]
RawScore(r) ==
    SumSeq([p \in 1..SeqLen |->
              ScoredOutputs.data[(r * SeqLen + p - 1) * Vocab
                                 + args.target_ids.data[r * SeqLen + p] + 1]
              * args.logit_mask.data[r * SeqLen + p]])

\* ClozeModel: the number of positions of row r that logit_mask counts
MaskCount(r) == SumSeq([p \in 1..SeqLen |-> args.logit_mask.data[r * SeqLen + p]])

ExpectedScore(r) ==
    IF self.length_penalty > 0
    THEN Quot(RawScore(r), Pow(MaskCount(r), self.length_penalty))
    ELSE RawScore(r)

\* x[:, c] of a tensor [B, C, ...]
Choice(t, c) ==
    LET B == t.shape[1]
        C == t.shape[2]
        inner == Numel(t) \div (B * C)
    IN  [shape |-> <<B>> \o TrailingDims(t),
         data |-> [i \in 1..(B * inner) |->
                     t.data[(((i - 1) \div inner) * C + c) * inner + ((i - 1) % inner) + 1]]]

ChoiceArgs(c) ==
    [input_ids |-> Choice(args.input_ids, c),
     position_ids |-> Choice(args.position_ids, c),
     attention_mask |-> Choice(args.attention_mask, c),
     target_ids |-> Choice(args.target_ids, c),
     logit_mask |-> Choice(args.logit_mask, c)]

\* C1: with length_penalty = 0 every row's score of ClozeModel.forward is the
\* sum over the positions p of outputs[r, p, target_ids[r, p]] *
\* logit_mask[r, p], with nothing divided.
C1_UnnormalizedMaskedSum ==
    (Called /\ IsCloze /\ self.length_penalty = 0) =>
        /\ ret.kind = "return"
        /\ Len(ret.value.data) = NumRows
        /\ \A r \in 0..(NumRows - 1) : ret.value.data[r + 1] = RawScore(r)

C1_Witness ==
    /\ Called /\ IsCloze /\ self.length_penalty = 0 /\ self.take_softmax
    /\ Rank = 3 /\ NumRows > 1
    /\ \E i, j \in 1..Len(args.logit_mask.data) :
          args.logit_mask.data[i] = 0 /\ args.logit_mask.data[j] = 1
    /\ \E r \in 1..NumRows : ret.value.data[r] # 0

\* C2: for a 3-D input [B, C, L], entry (b, c) of the [B, C] scores of
\* ClozeModel.forward is the score that a 2-D forward call on choice c alone
\* returns for row b.
C2_ChoiceIndependence ==
    (Called /\ IsCloze /\ Rank = 3) =>
        LET B == args.input_ids.shape[1]
            C == args.input_ids.shape[2]
        IN  /\ ret.kind = "return"
            /\ ret.value.shape = <<B, C>>
            /\ \A c \in 0..(C - 1) :
                  LET alone == ClozeModel_forward(self, ChoiceArgs(c)).ret
                  IN  /\ alone.kind = "return"
                      /\ alone.value.shape = <<B>>
                      /\ \A b \in 0..(B - 1) :
                            At2(ret.value, b, c) = alone.value.data[b + 1]

C2_Witness ==
    /\ Called /\ IsCloze /\ Rank = 3
    /\ args.input_ids.shape[1] = 2 /\ args.input_ids.shape[2] = 2
    /\ ret.kind = "return"
    /\ Cardinality({ret.value.data[i] : i \in 1..4}) = 4

\* C3: with length_penalty > 0 every row's masked sum is divided by (the sum
\* of that row's logit_mask) ^ length_penalty: a mask of all ones over k
\* positions divides by k ^ length_penalty, and a position with mask 0 counts
\* neither in the sum nor in the divisor.
C3_LengthNormalized ==
    (Called /\ IsCloze /\ self.length_penalty > 0) =>
        /\ ret.kind = "return"
        /\ Len(ret.value.data) = NumRows
        /\ \A r \in 0..(NumRows - 1) :
              /\ ret.value.data[r + 1]
                   = Quot(RawScore(r), Pow(MaskCount(r), self.length_penalty))
              /\ (\A p \in 1..SeqLen : args.logit_mask.data[r * SeqLen + p] = 1) =>
                    ret.value.data[r + 1]
                      = Quot(RawScore(r), Pow(SeqLen, self.length_penalty))

\* the mask [1, 1, 0] with length_penalty 1: the sum of two positions, halved
C3_Witness ==
    /\ Called /\ IsCloze /\ self.length_penalty = 1
    /\ Rank = 2
    /\ SubSeq(args.logit_mask.data, 1, SeqLen) = [AllOnes EXCEPT ![SeqLen] = 0]
    /\ RawScore(0) # 0
    /\ ret.value.data[1] = Quot(RawScore(0), SeqLen - 1)
    /\ ret.value.data[1] # Quot(RawScore(0), SeqLen)

\* C4 as stated: PoolingModel.forward with an unrecognized pool_token fails
\* with a not-implemented error before any input is reshaped and before the
\* language model is invoked.
C4_FailsBeforeAnyTensor ==
    (Called /\ IsPooling /\ self.pool_token \notin {"start", "pad", "cls"}) =>
        /\ ret.kind = "NotImplementedError"
        /\ trace = <<>>

\* C4 amended: PoolingModel.forward with an unrecognized pool_token never
\* returns. A 3-D input with num_class # 1 fails the assertion first, with
\* nothing reshaped and the language model not invoked; every other call
\* raises the not-implemented error after the inputs were flattened (3-D)
\* and the language model was invoked, before anything is pooled.
C4_FailsAfterModel ==
    (Called /\ IsPooling /\ self.pool_token \notin {"start", "pad", "cls"}) =>
        IF Rank = 3 /\ self.num_class # 1
        THEN ret.kind = "AssertionError" /\ trace = <<>>
        ELSE /\ ret.kind = "NotImplementedError"
             /\ trace = (IF Rank = 3 THEN <<"reshape">> ELSE <<>>) \o <<"model">>

C4_Witness ==
    /\ Called /\ IsPooling /\ self.pool_token = "middle"
    /\ Rank = 3 /\ self.num_class = 1
    /\ ret.kind = "NotImplementedError"
    /\ trace = <<"reshape", "model">>

\* the call's attention_mask with every entry lowered by one
ShiftedDown(t) == [shape |-> t.shape, data |-> [i \in 1..Len(t.data) |-> t.data[i] - 1]]

\* C5 as stated: PoolingModel.forward with pool_token = 'pad' on
\* attention_mask = m + 1 returns what forward with pool_token = 'start'
\* returns on attention_mask = m (same language model, head parameters,
\* input_ids, position_ids and dropout draw).
C5_PadIsShiftedStart ==
    (Called /\ IsPooling /\ self.pool_token = "pad") =>
        ret = PoolingModel_forward(
                  [self EXCEPT !.pool_token = "start"],
                  [args EXCEPT !.attention_mask = ShiftedDown(args.attention_mask)]).ret

\* C5 amended: PoolingModel.forward with pool_token = 'pad' on attention_mask
\* = m + 1 returns what pool_token = 'start' pools at the indices m from the
\* outputs the language model returned for attention_mask = m + 1 (same head
\* parameters and dropout draw), and fails where that fails; the language
\* model is given m + 1, not m.
C5_PadPoolsWhereStartDoes ==
    (Called /\ IsPooling /\ self.pool_token = "pad"
       /\ ~(Rank = 3 /\ self.num_class # 1)) =>
        ret = PoolingModel_pool(
                  [self EXCEPT !.pool_token = "start"],
                  LanguageModel(self.model, Rows2D(args.input_ids),
                                Rows2D(args.position_ids), Rows1D(args.attention_mask)),
                  ShiftedDown(Rows1D(args.attention_mask)),
                  args.noise,
                  IF Rank = 3 THEN <<args.input_ids.shape[2]>> ELSE None,
                  IF Rank = 3 THEN <<"reshape">> ELSE <<>>).ret

C5_Witness ==
    /\ Called /\ IsPooling /\ self.pool_token = "pad"
    /\ Rank = 3 /\ NumRows > 1
    /\ ret.kind = "return"
    /\ \E i, j \in 1..Len(ret.value.data) : ret.value.data[i] # ret.value.data[j]

\* C6: VerbalizerModel.forward fails by assertion on every input_ids whose
\* rank is not 2, before the language model is invoked; on 2-D input_ids the
\* assertion does not fire.
C6_RejectsNon2D ==
    (Called /\ IsVerbalizer) =>
        /\ Rank # 2 => (ret.kind = "AssertionError" /\ trace = <<>>)
        /\ Rank = 2 => (ret.kind # "AssertionError" /\ "model" \in {trace[i] : i \in DOMAIN trace})

C6_Witness ==
    /\ Called /\ IsVerbalizer
    /\ Rank = 3
    /\ ret.kind = "AssertionError"
    /\ trace = <<>>

FlatArgs ==
    [input_ids |-> Rows2D(args.input_ids),
     position_ids |-> Rows2D(args.position_ids),
     attention_mask |-> Rows1D(args.attention_mask),
     noise |-> args.noise]

\* C7: PoolingModel.forward on 3-D input_ids [B, C, L] fails by assertion,
\* with the language model not invoked, when num_class # 1; when num_class = 1
\* its [B, C] result holds at (b, c) the head's score of flattened row
\* b * C + c, or it fails as the call on the B * C flattened rows fails.
C7_MultiChoicePooling ==
    (Called /\ IsPooling /\ Rank = 3) =>
        IF self.num_class # 1
        THEN ret.kind = "AssertionError" /\ trace = <<>>
        ELSE LET B == args.input_ids.shape[1]
                 C == args.input_ids.shape[2]
                 flat == PoolingModel_forward(self, FlatArgs).ret
             IN  /\ ret.kind = flat.kind
                 /\ ret.kind # "AssertionError"
                 /\ ret.kind = "return" =>
                       /\ ret.value.shape = <<B, C>>
                       /\ flat.value.shape = <<B * C, 1>>
                       /\ \A b \in 0..(B - 1) : \A c \in 0..(C - 1) :
                             At2(ret.value, b, c) = flat.value.data[b * C + c + 1]

C7_Witness ==
    /\ Called /\ IsPooling /\ Rank = 3 /\ self.num_class = 1
    /\ args.input_ids.shape[1] = 2 /\ args.input_ids.shape[2] = 2
    /\ ret.kind = "return"
    /\ At2(ret.value, 0, 1) # At2(ret.value, 1, 0)

\* C8: VerbalizerModel.forward on 2-D input returns a [batch, num_candidates]
\* result with outputs[r, attention_mask[r], target_ids[r, j]] at (r, j),
\* whatever logit_mask is; an attention_mask entry outside -L .. L-1 is an
\* index error.
C8_VerbalizerScores ==
    (Called /\ IsVerbalizer /\ Rank = 2) =>
        LET N == args.input_ids.shape[1]
            valid == \A r \in 1..N : InRange(args.attention_mask.data[r], SeqLen)
        IN  IF valid
            THEN /\ ret.kind = "return"
                 /\ ret.value.shape = <<N, NumCand>>
                 /\ \A r \in 0..(N - 1) : \A j \in 0..(NumCand - 1) :
                       LET am == args.attention_mask.data[r + 1]
                           pos == IF am < 0 THEN am + SeqLen ELSE am
                       IN  At2(ret.value, r, j)
                             = ModelOutputs.data[(r * SeqLen + pos) * Vocab
                                                 + At2(args.target_ids, r, j) + 1]
            ELSE ret.kind = "IndexError"

C8_Witness ==
    /\ Called /\ IsVerbalizer /\ Rank = 2
    /\ args.input_ids.shape[1] = 2
    /\ ret.kind = "return"
    /\ args.logit_mask.data[1] = 0
    /\ SubSeq(ret.value.data, 1, NumCand) # SubSeq(ret.value.data, NumCand + 1, 2 * NumCand)

\* the vectors PoolingModel pools with pool_token = 'pad': for a row whose
\* attention_mask is 0 the output at the last position L - 1, for 1 .. L the
\* output at attention_mask - 1
PadPooled ==
    [shape |-> <<NumRows, Hidden>>,
     data |-> [i \in 1..(NumRows * Hidden) |->
                 LET r == (i - 1) \div Hidden
                     am == args.attention_mask.data[r + 1]
                     pos == IF am = 0 THEN SeqLen - 1 ELSE am - 1
                 IN  ModelOutputs.data[(r * SeqLen + pos) * Hidden + ((i - 1) % Hidden) + 1]]]

\* C10: PoolingModel.forward with pool_token = 'pad' does not fail on a row
\* whose attention_mask is 0: the index -1 wraps around, the row's pooled
\* vector is the output at the last position L - 1; for attention_mask in
\* 1 .. L it is the output at attention_mask - 1.
C10_PadWrapsAround ==
    (/\ Called /\ IsPooling /\ self.pool_token = "pad"
     /\ ~(Rank = 3 /\ self.num_class # 1)
     /\ \A r \in 1..NumRows : args.attention_mask.data[r] \in 0..SeqLen) =>
        /\ ret.kind = "return"
        /\ ret.value.data
             = Linear(self.multichoice_head,
                      Dropout(self, tanh(Linear(self.pool_layer, PadPooled)),
                              args.noise)).data

C10_Witness ==
    /\ Called /\ IsPooling /\ self.pool_token = "pad"
    /\ \A r \in 1..NumRows : args.attention_mask.data[r] \in 0..SeqLen
    /\ args.attention_mask.data[1] = 0
    /\ ret.kind = "return"

\* what a 2-D call must return whatever was called before it
FreshResult ==
    /\ (IsCloze /\ Rank = 2) =>
          /\ num_choices = None
          /\ ret.kind = "return"
          /\ ret.value.shape = <<args.input_ids.shape[1]>>
          /\ \A r \in 0..(NumRows - 1) : ret.value.data[r + 1] = ExpectedScore(r)
    /\ (IsPooling /\ Rank = 2) =>
          /\ num_choices = None
          /\ ret.kind = "return" =>
                ret.value.shape = <<args.input_ids.shape[1], self.num_class>>
    /\ IsVerbalizer => num_choices = None
    /\ (Rank = 3 /\ ret.kind = "return") =>
          /\ num_choices = <<args.input_ids.shape[2]>>
          /\ ret.value.shape = <<args.input_ids.shape[1], args.input_ids.shape[2]>>

\* C9: no forward call changes a field of its instance, and nothing of a call
\* is kept for the next: num_choices recorded by a 3-D call is gone in the
\* 2-D call that follows, which returns the [batch] scores of a first call.
C9_NoStateBetweenCalls == [][self' = self]_vars /\ [](Called => FreshResult)

C9_Witness ==
    /\ IsCloze
    /\ Len(hist) >= 2 /\ hist[Len(hist) - 1] = 3 /\ hist[Len(hist)] = 2
    /\ ret.kind = "return"
    /\ ret.value.shape = <<args.input_ids.shape[1]>>
    /\ num_choices = None

====
